---- MODULE Spec2Model ----
(***************************************************************************)
(* rustation-chat: a Rocket server with one tokio broadcast channel.       *)
(*   POST /message  (post)   validates a Message form and sends it         *)
(*   GET  /events   (events) subscribes and relays every received message  *)
(*                           as a server-sent event until shutdown/closure *)
(* The broadcast channel is modelled slot by slot (ring buffer, tail       *)
(* position, receiver count, per-receiver cursor), the stream loop as one  *)
(* action per select! branch.                                              *)
(***************************************************************************)
EXTENDS Integers, Sequences, FiniteSets, TLC

(* ------------------------------ bounds --------------------------------- *)
\* capacity handed to channel(); the program uses 1024, scaled down here
Capacity == 2
\* number of /events connections ever opened
NumStreams == 2
\* number of messages the channel ever stores
MaxSends == 4

(* --------------------------- program constants ------------------------- *)
\* #[field(validate = len(..30))] on room
RoomLimit == 30
\* #[field(validate = len(..20))] on username
UsernameLimit == 20

\* channel::<Message>(1024): the capacity the program asks for
ChannelCapacity == 1024

Streams == 1..NumStreams
\* Option::None of a slot or of a receive: no message has this body
None == [room |-> <<>>, username |-> <<>>, message |-> "None"]

\* a text of n units
Str(n) == [i \in 1..n |-> "a"]

\* lengths of the room / username fields a client may submit
RoomLens == {29, 30, 31}
UsernameLens == {19, 20, 21}
Bodies == {"hi"}

\* struct Message { room, username, message }
Message == [room : {Str(n) : n \in RoomLens},
            username : {Str(n) : n \in UsernameLens},
            message : Bodies]

\* usize::next_power_of_two, applied by channel() to the capacity
RECURSIVE PowerOfTwoFrom(_, _)
PowerOfTwoFrom(p, n) == IF p >= n THEN p ELSE PowerOfTwoFrom(2 * p, n)
next_power_of_two(n) == PowerOfTwoFrom(1, n)

\* number of slots of the ring buffer
BufLen == next_power_of_two(Capacity)

\* slot index of a position (pos & mask)
Idx(p) == p % BufLen

VARIABLES
    buffer,     \* ring of slots [pos, rem, val]
    tail,       \* [pos, rx_cnt, closed]
    rx,         \* rx[s]: next position of the receiver stream s owns
    state,      \* state[s]: "Idle" | "Streaming" | "Closed"
    endedBy,    \* history: the branch that ended stream s
    end,        \* Rocket's shutdown signal has been raised
    emitted,    \* emitted[s]: payloads of the events the open stream s has
                \* yielded so far; gone with the connection
    response,   \* outcome of the latest POST /message
    sent,       \* history: values stored by send, sent[p+1] has position p
    got,        \* history of the open stream s: positions of the values yielded
    subAt,      \* history of the open stream s: tail position when it subscribed
    lagged,     \* history of the open stream s: number of Lagged results
    lagAt,      \* history of the open stream s: tail position at the latest
                \* Lagged result
    afterClose, \* history: an event was emitted after the channel was closed
    cutShort    \* history: a stream ended on shutdown with messages unread

vars == <<buffer, tail, rx, state, endedBy, end, emitted, response, sent, got,
          subAt, lagged, lagAt, afterClose, cutShort>>

(* ------------------------- form validation ----------------------------- *)
\* the reading "at most limit units"
LenUpTo(n, limit) == n <= limit

\* rocket::form::validate::len with a RangeTo: (..limit).contains(&n)
len(n, limit) == n < limit

\* variant: only the room is validated
FormValid_room_only(form) == len(Len(form.room), RoomLimit)

\* FromForm for Message: both field validators must pass
FormValid(form) ==
    /\ len(Len(form.room), RoomLimit)
    /\ len(Len(form.username), UsernameLimit)

(* ------------------------- event payload ------------------------------- *)
\* variant: the fields are written in the order of their names
Json_sorted(m) == <<<<"message", m.message>>, <<"room", m.room>>,
                    <<"username", m.username>>>>

\* Event::json(&msg): the serde serialisation, fields in declaration order
Json(m) == <<<<"room", m.room>>, <<"username", m.username>>,
             <<"message", m.message>>>>

(* ----------------- tokio::sync::broadcast, as used -------------------- *)
\* channel(Capacity).0: empty ring, the Sender is kept and the Receiver
\* returned with it is dropped at once, so no receiver is registered
channel ==
    [buffer |-> [i \in 0..(BufLen - 1) |->
                    [pos |-> i - BufLen, rem |-> 0, val |-> None]],
     tail |-> [pos |-> 0, rx_cnt |-> 0, closed |-> FALSE]]

\* variant: a new receiver is handed the retained backlog
subscribe_replay(t) ==
    [next |-> IF t.pos > BufLen THEN t.pos - BufLen ELSE 0,
     tail |-> [t EXCEPT !.rx_cnt = @ + 1]]

\* variant: the receiver is not registered until its stream is polled
subscribe_unregistered(t) == [next |-> t.pos, tail |-> t]

\* Sender::subscribe: the new receiver starts at the tail
subscribe(t) == [next |-> t.pos, tail |-> [t EXCEPT !.rx_cnt = @ + 1]]

\* variant: a bounded queue, the sender waits while the slot it would
\* overwrite still has readers
send_bounded(buf, t, value) ==
    IF t.rx_cnt = 0
    THEN [res |-> "Err", buffer |-> buf, tail |-> t]
    ELSE IF buf[Idx(t.pos)].rem > 0
         THEN [res |-> "Pending", buffer |-> buf, tail |-> t]
         ELSE [res |-> "Ok",
               buffer |-> [buf EXCEPT ![Idx(t.pos)] =
                             [pos |-> t.pos, rem |-> t.rx_cnt, val |-> value]],
               tail |-> [t EXCEPT !.pos = @ + 1]]

\* variant: the channel carries one room only, messages of other rooms are
\* dropped
send_one_room(buf, t, value) ==
    IF t.rx_cnt = 0 \/ Len(value.room) # RoomLimit - 1
    THEN [res |-> "Err", buffer |-> buf, tail |-> t]
    ELSE [res |-> "Ok",
          buffer |-> [buf EXCEPT ![Idx(t.pos)] =
                        [pos |-> t.pos, rem |-> t.rx_cnt, val |-> value]],
          tail |-> [t EXCEPT !.pos = @ + 1]]

\* variant: an unbounded queue, a message is appended once the ring is full
send_unbounded(buf, t, value) ==
    IF t.rx_cnt = 0
    THEN [res |-> "Err", buffer |-> buf, tail |-> t]
    ELSE [res |-> "Ok",
          buffer |-> [i \in DOMAIN buf \cup {t.pos} |->
                        IF i = t.pos
                        THEN [pos |-> t.pos, rem |-> t.rx_cnt, val |-> value]
                        ELSE buf[i]],
          tail |-> [t EXCEPT !.pos = @ + 1]]

\* Sender::send: fails without receivers, otherwise overwrites the slot at
\* the tail and advances the tail; it never waits for a receiver
send(buf, t, value) ==
    IF t.rx_cnt = 0
    THEN [res |-> "Err", buffer |-> buf, tail |-> t]
    ELSE [res |-> "Ok",
          buffer |-> [buf EXCEPT ![Idx(t.pos)] =
                        [pos |-> t.pos, rem |-> t.rx_cnt, val |-> value]],
          tail |-> [t EXCEPT !.pos = @ + 1]]

\* variant: a successful receive moves the cursor two positions
recv_ref_skip(buf, t, nxt) ==
    LET slot == buf[Idx(nxt)] IN
    IF slot.pos # nxt
    THEN IF slot.pos + BufLen = nxt
         THEN IF t.closed
              THEN [res |-> "Closed", next |-> nxt, val |-> None]
              ELSE [res |-> "Empty", next |-> nxt, val |-> None]
         ELSE [res |-> "Lagged", next |-> t.pos - BufLen, val |-> None]
    ELSE [res |-> "Ok", next |-> nxt + 2, val |-> slot.val]

\* variant: no lag detection, a receiver that was overtaken is handed
\* whatever its slot holds now
recv_ref_overtaken(buf, t, nxt) ==
    LET slot == buf[Idx(nxt)] IN
    IF slot.pos # nxt /\ slot.pos + BufLen = nxt
    THEN IF t.closed
         THEN [res |-> "Closed", next |-> nxt, val |-> None]
         ELSE [res |-> "Empty", next |-> nxt, val |-> None]
    ELSE [res |-> "Ok", next |-> nxt + 1, val |-> slot.val]

\* variant: a closed channel reports Closed before the retained values
recv_ref_closed_first(buf, t, nxt) ==
    LET slot == buf[Idx(nxt)] IN
    IF t.closed
    THEN [res |-> "Closed", next |-> nxt, val |-> None]
    ELSE IF slot.pos # nxt
         THEN IF slot.pos + BufLen = nxt
              THEN [res |-> "Empty", next |-> nxt, val |-> None]
              ELSE [res |-> "Lagged", next |-> t.pos - BufLen, val |-> None]
         ELSE [res |-> "Ok", next |-> nxt + 1, val |-> slot.val]

\* variant: a receiver that lagged resumes at the tail, skipping every
\* message still retained
recv_ref_resume_tail(buf, t, nxt) ==
    LET slot == buf[Idx(nxt)] IN
    IF slot.pos # nxt
    THEN IF slot.pos + BufLen = nxt
         THEN IF t.closed
              THEN [res |-> "Closed", next |-> nxt, val |-> None]
              ELSE [res |-> "Empty", next |-> nxt, val |-> None]
         ELSE [res |-> "Lagged", next |-> t.pos, val |-> None]
    ELSE [res |-> "Ok", next |-> nxt + 1, val |-> slot.val]

\* Receiver::recv_ref: what a receiver whose cursor is nxt gets
recv_ref(buf, t, nxt) ==
    LET slot == buf[Idx(nxt)] IN
    IF slot.pos # nxt
    THEN IF slot.pos + BufLen = nxt
         THEN IF t.closed
              THEN [res |-> "Closed", next |-> nxt, val |-> None]
              ELSE [res |-> "Empty", next |-> nxt, val |-> None]
         ELSE LET oldest == t.pos - BufLen
                  missed == oldest - nxt
              IN IF missed = 0
                 THEN [res |-> "Ok", next |-> nxt + 1, val |-> slot.val]
                 ELSE [res |-> "Lagged", next |-> oldest, val |-> None]
    ELSE [res |-> "Ok", next |-> nxt + 1, val |-> slot.val]

\* RecvGuard::drop: the reader releases the slot it has just read; the last
\* reader of a slot clears its value
release(buf, p) ==
    [buf EXCEPT ![Idx(p)] =
        [@ EXCEPT !.rem = @ - 1,
                  !.val = IF buf[Idx(p)].rem = 1 THEN None ELSE @]]

\* Receiver::drop, second half: release every slot still unread
RECURSIVE drain(_, _, _, _)
drain(buf, t, nxt, until) ==
    IF nxt >= until
    THEN buf
    ELSE LET r == recv_ref(buf, t, nxt) IN
         CASE r.res = "Ok" -> drain(release(buf, nxt), t, r.next, until)
           [] r.res = "Lagged" -> drain(buf, t, r.next, until)
           [] OTHER -> buf

\* variant: the dropped receiver releases every retained slot, read or not
drop_rx_from_oldest(buf, t, nxt) ==
    LET t2 == [t EXCEPT !.rx_cnt = @ - 1]
        oldest == IF t.pos > BufLen THEN t.pos - BufLen ELSE 0
    IN [buffer |-> drain(buf, t2, oldest, t.pos), tail |-> t2]

\* variant: the receiver of a stream that ended stays registered
drop_rx_leak(buf, t, nxt) ==
    [buffer |-> drain(buf, t, nxt, t.pos), tail |-> t]

\* Receiver::drop: unregister, then drain
drop_rx(buf, t, nxt) ==
    LET t2 == [t EXCEPT !.rx_cnt = @ - 1] IN
    [buffer |-> drain(buf, t2, nxt, t.pos), tail |-> t2]

(* ----------------------------- rocket() -------------------------------- *)
Init ==
    /\ buffer = channel.buffer
    /\ tail = channel.tail
    /\ rx = [s \in {} |-> 0]
    /\ state = [s \in Streams |-> "Idle"]
    /\ endedBy = [s \in Streams |-> "none"]
    /\ end = FALSE
    /\ emitted = [s \in Streams |-> <<>>]
    /\ response = "none"
    /\ sent = <<>>
    /\ got = [s \in Streams |-> <<>>]
    /\ subAt = [s \in Streams |-> 0]
    /\ lagged = [s \in Streams |-> 0]
    /\ lagAt = [s \in Streams |-> 0]
    /\ afterClose = FALSE
    /\ cutShort = FALSE

(* --------------------------- POST /message ----------------------------- *)
\* variant: the handler hands the send error on to the client
post_status_propagate(res) ==
    IF res = "Err" THEN "500 Internal Server Error" ELSE "200 OK"

\* what the handler answers given the result of send: the result is
\* bound to _res and dropped
post_status(res) == "200 OK"

\* a form that fails validation never reaches the handler (422);
\* otherwise the handler sends the message and answers 200. There is no
\* handler to run once the Sender is gone
post(form) ==
    /\ ~tail.closed
    /\ IF FormValid(form)
       THEN /\ tail.rx_cnt > 0 => tail.pos < MaxSends
            /\ LET r == send(buffer, tail, form) IN
               /\ r.res # "Pending"
               /\ buffer' = r.buffer
               /\ tail' = r.tail
               /\ sent' = IF r.res = "Ok" THEN Append(sent, form) ELSE sent
               /\ response' = post_status(r.res)
       ELSE /\ response' = "422 Unprocessable Entity"
            /\ UNCHANGED <<buffer, tail, sent>>
    /\ UNCHANGED <<rx, state, endedBy, end, emitted, got, subAt, lagged, lagAt,
                   afterClose, cutShort>>

(* ---------------------------- GET /events ------------------------------ *)
\* the handler body up to the EventStream!: let mut rx = queue.subscribe();
\* connections are numbered in the order they are accepted
events(s) ==
    /\ state[s] = "Idle"
    /\ \A o \in Streams : o < s => state[o] # "Idle"
    /\ ~tail.closed
    /\ LET r == subscribe(tail) IN
       /\ rx' = [o \in DOMAIN rx \cup {s} |-> IF o = s THEN r.next ELSE rx[o]]
       /\ tail' = r.tail
    /\ subAt' = [subAt EXCEPT ![s] = tail.pos]
    /\ state' = [state EXCEPT ![s] = "Streaming"]
    /\ UNCHANGED <<buffer, endedBy, end, emitted, response, sent, got, lagged,
                   lagAt, afterClose, cutShort>>

\* the stream ends: the generator and the receiver it owns are dropped,
\* and the connection's output with them
Terminate(s, why) ==
    /\ LET d == drop_rx(buffer, tail, rx[s]) IN
       /\ buffer' = d.buffer
       /\ tail' = d.tail
    /\ rx' = [o \in DOMAIN rx \ {s} |-> rx[o]]
    /\ state' = [state EXCEPT ![s] = "Closed"]
    /\ endedBy' = [endedBy EXCEPT ![s] = why]
    /\ emitted' = [emitted EXCEPT ![s] = <<>>]
    /\ got' = [got EXCEPT ![s] = <<>>]
    /\ subAt' = [subAt EXCEPT ![s] = 0]
    /\ lagged' = [lagged EXCEPT ![s] = 0]
    /\ lagAt' = [lagAt EXCEPT ![s] = 0]

\* variant: the message is yielded but stays at the head of the handle
on_ok_again(s, r) ==
    /\ emitted' = [emitted EXCEPT ![s] = Append(@, Json(r.val))]
    /\ got' = [got EXCEPT ![s] = Append(@, buffer[Idx(rx[s])].pos)]
    /\ UNCHANGED <<buffer, rx, tail, state, endedBy, subAt, lagged, lagAt>>

\* Ok(msg) => msg, then yield Event::json(&msg) and loop
on_ok(s, r) ==
    /\ emitted' = [emitted EXCEPT ![s] = Append(@, Json(r.val))]
    /\ got' = [got EXCEPT ![s] = Append(@, buffer[Idx(rx[s])].pos)]
    /\ rx' = [rx EXCEPT ![s] = r.next]
    /\ buffer' = release(buffer, rx[s])
    /\ UNCHANGED <<tail, state, endedBy, subAt, lagged, lagAt>>

\* variant: Err(RecvError::Lagged(_)) => break
on_lagged_break(s, r) == Terminate(s, "lagged")

\* variant: the lag is reported to the client as an event
on_lagged_event(s, r) ==
    /\ rx' = [rx EXCEPT ![s] = r.next]
    /\ lagged' = [lagged EXCEPT ![s] = @ + 1]
    /\ lagAt' = [lagAt EXCEPT ![s] = tail.pos]
    /\ emitted' = [emitted EXCEPT ![s] = Append(@, Json(None))]
    /\ got' = [got EXCEPT ![s] = Append(@, r.next)]
    /\ UNCHANGED <<buffer, tail, state, endedBy, subAt>>

\* Err(RecvError::Lagged(_)) => continue
on_lagged(s, r) ==
    /\ rx' = [rx EXCEPT ![s] = r.next]
    /\ lagged' = [lagged EXCEPT ![s] = @ + 1]
    /\ lagAt' = [lagAt EXCEPT ![s] = tail.pos]
    /\ UNCHANGED <<buffer, tail, state, endedBy, emitted, got, subAt>>

\* variant: Err(RecvError::Closed) => continue
on_closed_continue(s) ==
    UNCHANGED <<buffer, tail, rx, state, endedBy, emitted, got, subAt, lagged,
                lagAt>>

\* Err(RecvError::Closed) => break
on_closed(s) == Terminate(s, "closed")

\* select! branch 1: rx.recv() completes
select_recv(s) ==
    /\ state[s] = "Streaming"
    /\ LET r == recv_ref(buffer, tail, rx[s]) IN
       /\ r.res # "Empty"
       /\ CASE r.res = "Ok" -> on_ok(s, r)
            [] r.res = "Lagged" -> on_lagged(s, r)
            [] r.res = "Closed" -> on_closed(s)
       /\ afterClose' = (afterClose \/ (tail.closed /\ r.res = "Ok"))
    /\ UNCHANGED <<end, response, sent, cutShort>>

\* variant: the shutdown branch is only taken once nothing is pending
select_end_drained(s) ==
    /\ state[s] = "Streaming"
    /\ end
    /\ recv_ref(buffer, tail, rx[s]).res = "Empty"
    /\ Terminate(s, "shutdown")
    /\ cutShort' = (cutShort \/ rx[s] < tail.pos)
    /\ UNCHANGED <<end, response, sent, afterClose>>

\* select! branch 2: the Shutdown future completes
select_end(s) ==
    /\ state[s] = "Streaming"
    /\ end
    /\ Terminate(s, "shutdown")
    /\ cutShort' = (cutShort \/ rx[s] < tail.pos)
    /\ UNCHANGED <<end, response, sent, afterClose>>

(* ---------------------------- environment ------------------------------ *)
\* Rocket raises the shutdown signal every Shutdown guard resolves on
notify ==
    /\ ~end
    /\ end' = TRUE
    /\ UNCHANGED <<buffer, tail, rx, state, endedBy, emitted, response, sent,
                   got, subAt, lagged, lagAt, afterClose, cutShort>>

\* the client goes away: Rocket drops the response stream
disconnect(s) ==
    /\ state[s] = "Streaming"
    /\ Terminate(s, "disconnect")
    /\ UNCHANGED <<end, response, sent, afterClose, cutShort>>

\* the managed Sender is dropped: the channel is closed. The handlers
\* never drop it themselves; it goes when Rocket lets go of its managed state
drop_sender ==
    /\ ~tail.closed
    /\ tail' = [tail EXCEPT !.closed = TRUE]
    /\ UNCHANGED <<buffer, rx, state, endedBy, end, emitted, response, sent,
                   got, subAt, lagged, lagAt, afterClose, cutShort>>

Next ==
    \/ \E form \in Message : post(form)
    \/ \E s \in Streams : events(s)
    \/ \E s \in Streams : select_recv(s)
    \/ \E s \in Streams : select_end(s)
    \/ \E s \in Streams : disconnect(s)
    \/ notify
    \/ drop_sender

Spec == Init /\ [][Next]_vars

\* forms of two rooms that pass validation, and of one that does not
RoomForms ==
    [room : {Str(n) : n \in {1, RoomLimit - 1, RoomLimit}},
     username : {Str(UsernameLimit - 1)}, message : Bodies]

\* the same program, its clients posting to more than one room
NextRooms ==
    \/ \E form \in RoomForms : post(form)
    \/ \E s \in Streams : events(s)
    \/ \E s \in Streams : select_recv(s)
    \/ \E s \in Streams : select_end(s)
    \/ \E s \in Streams : disconnect(s)
    \/ notify
    \/ drop_sender

RoomsSpec == Init /\ [][NextRooms]_vars

\* the executor keeps polling a stream whose select! has a ready branch
FairSpec == Spec /\ \A s \in Streams : WF_vars(select_recv(s) \/ select_end(s))

TypeOK ==
    /\ tail.pos \in 0..MaxSends
    /\ tail.rx_cnt \in 0..NumStreams
    /\ DOMAIN rx = {s \in Streams : state[s] = "Streaming"}
    /\ tail.rx_cnt = Cardinality(DOMAIN rx)
    /\ \A s \in Streams : Len(emitted[s]) = Len(got[s])
    /\ \A s \in DOMAIN rx : rx[s] \in 0..tail.pos
    /\ Len(sent) = tail.pos

(* ------------------------------ properties ---------------------------- *)
Streaming(s) == state[s] = "Streaming"

\* this step appends an event to the output of stream s
Emits(s) == Len(emitted'[s]) > Len(emitted[s])

\* number of slots that hold a value
Retained == Cardinality({i \in DOMAIN buffer : buffer[i].val # None})

\* messages stored for receiver s and not yet read by it
Unread(s) == tail.pos - rx[s]

\* every event of s is the payload of the stored message it was read from
EventsAreStored ==
    \A s \in Streams : \A i \in DOMAIN got[s] :
        /\ got[s][i] \in 0..(Len(sent) - 1)
        /\ emitted[s][i] = Json(sent[got[s][i] + 1])

\* C1 (fan-out completeness): a subscriber that has not lagged has emitted
\* exactly the messages published since it subscribed, once each and in
\* publish order, up to its cursor; and every message published while it is
\* connected is eventually emitted by it, unless it lags or terminates first.
C1_NoGapsNoDuplicates ==
    \A s \in Streams : lagged[s] = 0 =>
        /\ Len(emitted[s]) = Len(got[s])
        /\ Streaming(s) => rx[s] = subAt[s] + Len(got[s])
        /\ \A i \in DOMAIN got[s] :
              /\ got[s][i] = subAt[s] + i - 1
              /\ emitted[s][i] = Json(sent[got[s][i] + 1])

C1_FanOutCompleteness ==
    /\ []C1_NoGapsNoDuplicates
    /\ \A s \in Streams : \A p \in 0..(MaxSends - 1) :
          (Streaming(s) /\ lagged[s] = 0 /\ subAt[s] <= p /\ p < tail.pos)
             ~> (\/ \E i \in DOMAIN got[s] : got[s][i] = p
                 \/ ~Streaming(s)
                 \/ lagged[s] > 0)

\* a connected subscriber that never lagged has emitted two messages
C1_Witness ==
    \E s \in Streams : Streaming(s) /\ lagged[s] = 0 /\ Len(got[s]) >= 2

\* C2 (independence): no stream emits a message published before it
\* subscribed, and a publish without subscribers leaves nothing in the
\* channel for a later subscriber.
C2_OnlyAfterSubscribe ==
    /\ EventsAreStored
    /\ \A s \in Streams : \A i \in DOMAIN got[s] : got[s][i] >= subAt[s]

C2_Independence ==
    /\ []C2_OnlyAfterSubscribe
    /\ [][\A form \in Message :
            (FormValid(form) /\ tail.rx_cnt = 0 /\ post(form))
               => (buffer' = buffer /\ tail' = tail /\ sent' = sent)]_vars

\* stream 1 emitted a message published before stream 2 subscribed, and
\* stream 2 has emitted a later one
C2_Witness ==
    /\ \E i \in DOMAIN got[1] : got[1][i] < subAt[2]
    /\ got[2] # <<>>

\* C3 (no-listener success): a publish without subscribers answers 200, is
\* always able to complete, and leaves the channel as it was.
C3_NoListenerSuccess ==
    /\ [](\A form \in Message :
            (FormValid(form) /\ tail.rx_cnt = 0 /\ ~tail.closed)
               => ENABLED post(form))
    /\ [][\A form \in Message :
            (FormValid(form) /\ tail.rx_cnt = 0 /\ post(form))
               => /\ response' = "200 OK"
                  /\ Retained' = Retained
                  /\ Retained' <= BufLen
                  /\ tail'.pos = tail.pos]_vars

\* a publish was answered 200 although nothing was ever stored
C3_Witness == response = "200 OK" /\ tail.pos = 0 /\ tail.rx_cnt = 0

\* the result rx.recv() has for stream s
RecvOf(s) == recv_ref(buffer, tail, rx[s])

\* C4 as stated: a room of 30 units and a username of 20 units are accepted,
\* 31 and 21 units are rejected.
C4_AcceptsUpToLimit ==
    [][\A form \in Message : post(form) =>
          ((response' = "200 OK")
              <=> (Len(form.room) <= 30 /\ Len(form.username) <= 20))]_vars

\* C4 (field bound enforcement), amended: a room of 29 units is accepted and
\* one of 30 units is rejected; a username of 19 units is accepted and one
\* of 20 units is rejected; a rejected form is answered 422.
C4_AcceptsBelowLimit ==
    [][\A form \in Message : post(form) =>
          /\ (response' = "200 OK")
                <=> (Len(form.room) <= 29 /\ Len(form.username) <= 19)
          /\ (response' = "422 Unprocessable Entity")
                <=> (Len(form.room) >= 30 \/ Len(form.username) >= 20)]_vars

\* a form was rejected after a message had been accepted and stored
C4_Witness == response = "422 Unprocessable Entity" /\ tail.pos > 0

C6_NoEventAfterClose ==
    [][tail.closed => \A s \in Streams : ~Emits(s)]_vars

\* C6 (clean shutdown), amended: once the channel is closed nothing more is
\* stored; a stream still emits the messages that were stored and unread by
\* it at closure, in order, and is told Closed only when none is left.
C6_OnlyBacklogAfterClose ==
    /\ [](\A s \in DOMAIN rx :
            RecvOf(s).res = "Closed" => (tail.closed /\ rx[s] = tail.pos))
    /\ [][tail.closed =>
            /\ tail'.pos = tail.pos
            /\ sent' = sent
            /\ \A s \in Streams : Emits(s) =>
                  /\ s \in DOMAIN rx
                  /\ rx[s] < tail.pos
                  /\ emitted'[s] = Append(emitted[s], Json(sent[rx[s] + 1]))
                  /\ rx'[s] = rx[s] + 1]_vars

\* an event was emitted after closure
C6_Witness == tail.closed /\ afterClose

\* C7 (closure terminates every stream): a stream told Closed leaves the
\* loop, and after closure every streaming stream eventually is Closed.
C7_ClosureTerminates ==
    /\ [][\A s \in Streams :
            (Streaming(s) /\ RecvOf(s).res = "Closed" /\ select_recv(s))
               => /\ state'[s] = "Closed"
                  /\ endedBy'[s] = "closed"
                  /\ \A o \in Streams : ~Emits(o)]_vars
    /\ \A s \in Streams :
          (tail.closed /\ Streaming(s)) ~> (state[s] = "Closed")

\* a stream ended on the Closed result
C7_Witness == \E s \in Streams : state[s] = "Closed" /\ endedBy[s] = "closed"

\* C8 as stated: once shutdown is raised a stream emits nothing more.
C8_NoEventAfterShutdown ==
    [][\A s \in Streams :
          (end /\ Streaming(s)) => ~Emits(s)]_vars

\* C8 (shutdown and pending messages), amended: once shutdown is raised the
\* shutdown branch is ready on every iteration, whatever is pending, and
\* taking it ends the stream without an event; select! may still take the
\* receive branch first when a message is ready.
C8_ShutdownBranchAlwaysReady ==
    /\ [](\A s \in Streams : (end /\ Streaming(s)) => ENABLED select_end(s))
    /\ [][\A s \in Streams : select_end(s) =>
            /\ state'[s] = "Closed"
            /\ endedBy'[s] = "shutdown"
            /\ \A o \in Streams : ~Emits(o)]_vars

\* a stream ended on shutdown with a message unread
C8_Witness == cutShort /\ \E s \in Streams : endedBy[s] = "shutdown"

\* C9 (ordering): a stream emits stored messages in increasing position,
\* which is publish order, so two streams emit common messages in the same
\* relative order.
C9_Ordering ==
    /\ EventsAreStored
    /\ \A s \in Streams : \A i, j \in DOMAIN got[s] :
          i < j => got[s][i] < got[s][j]
    /\ \A s1, s2 \in Streams :
          \A i, j \in DOMAIN got[s1] : \A k, l \in DOMAIN got[s2] :
             (i < j /\ got[s1][i] = got[s2][k] /\ got[s1][j] = got[s2][l])
                => k < l

\* two streams have both emitted the same two messages
C9_Witness ==
    \E i, j \in DOMAIN got[1] : \E k, l \in DOMAIN got[2] :
        i < j /\ got[1][i] = got[2][k] /\ got[1][j] = got[2][l]

\* C10 (publish never blocks): while the Sender exists a valid publish can
\* always complete, and with subscribers it stores the message in one step
\* without touching any receiver's cursor.
C10_PublishNeverBlocks ==
    /\ [](\A form \in Message :
            (FormValid(form) /\ ~tail.closed /\ tail.pos < MaxSends)
               => ENABLED post(form))
    /\ [][\A form \in Message :
            (FormValid(form) /\ tail.rx_cnt > 0 /\ post(form))
               => /\ tail'.pos = tail.pos + 1
                  /\ buffer'[Idx(tail.pos)].val = form
                  /\ rx' = rx
                  /\ response' = "200 OK"]_vars

\* a publish completed while a subscriber's unread backlog was at capacity
C10_Witness == \E s \in DOMAIN rx : Unread(s) > BufLen

\* the shutdown branch of stream s is ready
EndReady(s) == Streaming(s) /\ end

\* two slot values are both empty or the same message
SameVal(a, b) == ((a # None) = (b # None)) /\ ((a # None) => a = b)

\* two results of a receive are the same
SameRecv(q, r) ==
    q.res = r.res /\ q.next = r.next /\ SameVal(q.val, r.val)

\* the step ends stream s on shutdown or on a client disconnect
Cancels(s) == select_end(s) \/ disconnect(s)

FromJson(e) == [room |-> e[1][2], username |-> e[2][2], message |-> e[3][2]]

\* the field names of an event, in the order they are written
Keys(e) == <<e[1][1], e[2][1], e[3][1]>>

\* C12 (payload fidelity): every event of a stream carries the room,
\* username and message of the published message it was read from,
\* unchanged and under these names; a message published while one
\* subscriber is connected and has read everything is what that subscriber
\* receives next, and the event it emits next carries that message.
C12_PayloadFidelity ==
    /\ [](\A s \in Streams : \A i \in DOMAIN emitted[s] :
            /\ Len(emitted[s]) = Len(got[s])
            /\ got[s][i] \in 0..(Len(sent) - 1)
            /\ Keys(emitted[s][i]) = <<"room", "username", "message">>
            /\ FromJson(emitted[s][i]) = sent[got[s][i] + 1])
    /\ [][\A form \in RoomForms : \A s \in Streams :
            (/\ post(form)
             /\ FormValid(form)
             /\ DOMAIN rx = {s}
             /\ Unread(s) = 0)
            => /\ rx'[s] = rx[s]
               /\ recv_ref(buffer', tail', rx'[s]).res = "Ok"
               /\ recv_ref(buffer', tail', rx'[s]).val = form]_vars
    /\ [][\A s \in Streams : Emits(s) =>
            /\ Len(emitted'[s]) = Len(emitted[s]) + 1
            /\ RecvOf(s).res = "Ok"
            /\ FromJson(emitted'[s][Len(emitted'[s])]) = RecvOf(s).val]_vars

\* a single subscriber has emitted the two messages published since it
\* subscribed, which are of different rooms
C12_Witness ==
    \E s \in Streams :
        /\ DOMAIN rx = {s}
        /\ Len(emitted[s]) = 2
        /\ Unread(s) = 0
        /\ tail.pos = subAt[s] + 2
        /\ FromJson(emitted[s][1]).room # FromJson(emitted[s][2]).room

\* the step is stream s taking a Lagged result off its receive handle
LagStep(s) == Streaming(s) /\ RecvOf(s).res = "Lagged" /\ select_recv(s)

RetainedAt(p) ==
    buffer[Idx(p)].pos = p /\ buffer[Idx(p)].val # None

Unpolled(s) == Streaming(s) /\ got[s] = <<>> /\ lagged[s] = 0

\* C15 (subscribe before stream): accepting a connection registers its
\* receive handle at the publish position in the same step, before any step
\* of the stream; a message published while a stream is connected is stored
\* for it whether or not the stream has taken a step; and a stream that has
\* not taken a step finds every message published since it was accepted on
\* its handle, as far as the buffer retains them.
C15_SubscribeBeforeStream ==
    /\ [][\A s \in Streams : events(s) =>
            /\ state'[s] = "Streaming"
            /\ s \in DOMAIN rx'
            /\ rx'[s] = tail.pos
            /\ tail'.rx_cnt = tail.rx_cnt + 1
            /\ emitted'[s] = <<>>]_vars
    /\ [][\A form \in Message : \A s \in Streams :
            (post(form) /\ FormValid(form) /\ Streaming(s)) =>
               /\ tail'.pos = tail.pos + 1
               /\ rx'[s] = rx[s]
               /\ rx[s] <= tail.pos
               /\ buffer'[Idx(tail.pos)].pos = tail.pos
               /\ buffer'[Idx(tail.pos)].val = form
               /\ buffer'[Idx(tail.pos)].rem >= 1]_vars
    /\ [](\A s \in Streams : Unpolled(s) =>
            /\ rx[s] = subAt[s]
            /\ \A p \in subAt[s]..(tail.pos - 1) :
                  p >= tail.pos - BufLen =>
                     RetainedAt(p) /\ buffer[Idx(p)].val = sent[p + 1])

\* two messages were published after a connection was accepted and wait on
\* its handle, its stream not having taken a step
C15_Witness ==
    \E s \in Streams :
        /\ Unpolled(s)
        /\ Unread(s) = 2
        /\ RetainedAt(rx[s])
        /\ RetainedAt(rx[s] + 1)

\* the streams that are in Streaming
StreamingSet == {s \in Streams : Streaming(s)}

\* C16 (handle release): the registered receivers are exactly the streams
\* in Streaming; a stream leaves Streaming only by shutdown, disconnect or
\* closure, and the same step releases its receive handle; once no stream is
\* in Streaming a publish stores nothing, reaches no one and is answered as
\* a success.
C16_HandleRelease ==
    /\ [](/\ DOMAIN rx = StreamingSet
          /\ tail.rx_cnt = Cardinality(StreamingSet))
    /\ [][\A s \in Streams :
            (Streaming(s) /\ state'[s] # "Streaming") =>
               /\ state'[s] = "Closed"
               /\ endedBy'[s] \in {"shutdown", "disconnect", "closed"}
               /\ s \notin DOMAIN rx'
               /\ tail'.rx_cnt = tail.rx_cnt - 1]_vars
    /\ [][\A form \in Message :
            (/\ post(form)
             /\ FormValid(form)
             /\ \E s \in Streams : state[s] = "Closed"
             /\ StreamingSet = {})
            => /\ buffer' = buffer
               /\ tail' = tail
               /\ sent' = sent
               /\ emitted' = emitted
               /\ response' = "200 OK"]_vars

\* every stream has terminated after messages were published; no receiver
\* is registered and the buffer holds no message
C16_Witness ==
    /\ \A s \in Streams : state[s] = "Closed"
    /\ tail.rx_cnt = 0
    /\ tail.pos > 0
    /\ Retained = 0
    /\ response = "200 OK"

\* the room or the username of the form is longer than its bound
OverBound(form) ==
    Len(form.room) > RoomLimit \/ Len(form.username) > UsernameLimit

\* C17 (validation failure is local): a publish request whose room or
\* username is longer than its bound is answered with a client error and
\* nothing is sent: the buffer, the publish position, every cursor, every
\* stream's state and every stream's output are as before.
C17_ValidationFailureLocal ==
    [][\A form \in Message : (post(form) /\ OverBound(form)) =>
          /\ response' = "422 Unprocessable Entity"
          /\ buffer' = buffer
          /\ tail' = tail
          /\ sent' = sent
          /\ rx' = rx
          /\ state' = state
          /\ emitted' = emitted
          /\ \A s \in DOMAIN rx :
                SameRecv(recv_ref(buffer', tail', rx'[s]), RecvOf(s))]_vars

\* a request was rejected while a subscriber had emitted one message and had
\* another one waiting
C17_Witness ==
    /\ response = "422 Unprocessable Entity"
    /\ \E s \in Streams :
          /\ Streaming(s)
          /\ Len(emitted[s]) > 0
          /\ Unread(s) > 0

\* C18 (no per-room filtering): whatever its room, an accepted message is
\* stored once, at the next publish position, for every connected
\* subscriber, and a subscriber that has read everything receives it next;
\* a subscriber that has not lagged has emitted every message up to its
\* cursor whatever the rooms; and all streams see one publish order: the
\* same position is the same message on every stream.
C18_NoRoomFiltering ==
    /\ [][\A form \in RoomForms :
            (post(form) /\ FormValid(form) /\ tail.rx_cnt > 0) =>
               /\ tail'.pos = tail.pos + 1
               /\ buffer'[Idx(tail.pos)] =
                     [pos |-> tail.pos, rem |-> tail.rx_cnt, val |-> form]
               /\ sent' = Append(sent, form)
               /\ \A s \in DOMAIN rx : Unread(s) = 0 =>
                     recv_ref(buffer', tail', rx'[s]) =
                        [res |-> "Ok", next |-> rx[s] + 1, val |-> form]]_vars
    /\ [](\A s \in Streams : lagged[s] = 0 =>
            /\ Streaming(s) => rx[s] = subAt[s] + Len(got[s])
            /\ \A i \in DOMAIN got[s] :
                  /\ got[s][i] = subAt[s] + i - 1
                  /\ FromJson(emitted[s][i]) = sent[got[s][i] + 1])
    /\ [](\A s1, s2 \in Streams :
            \A i \in DOMAIN got[s1] : \A k \in DOMAIN got[s2] :
               got[s1][i] = got[s2][k] => emitted[s1][i] = emitted[s2][k])

\* two subscribers have both emitted the same two messages, which are of
\* different rooms, in the same order
C18_Witness ==
    \E i, j \in DOMAIN got[1] : \E k, l \in DOMAIN got[2] :
        /\ i < j /\ k < l
        /\ got[1][i] = got[2][k]
        /\ got[1][j] = got[2][l]
        /\ FromJson(emitted[1][i]).room # FromJson(emitted[1][j]).room
        /\ emitted[2][k] = emitted[1][i]
        /\ emitted[2][l] = emitted[1][j]

\* the messages receiver s can still receive: retained, at or after its
\* cursor
Receivable(s) == {p \in rx[s]..(tail.pos - 1) : RetainedAt(p)}

\* C19 (bounded backlog): the buffer has as many slots as the capacity
\* rounded up to a power of two, which for the program's 1024 is 1024; in
\* every reachable state it retains at most that many messages, and no
\* subscriber can still receive more than that many, however far behind its
\* cursor is.
C19_BoundedBacklog ==
    /\ next_power_of_two(ChannelCapacity) = ChannelCapacity
    /\ Capacity <= BufLen /\ BufLen < 2 * Capacity
    /\ DOMAIN buffer = 0..(BufLen - 1)
    /\ Retained <= BufLen
    /\ \A p \in 0..(tail.pos - 1) : RetainedAt(p) => p >= tail.pos - BufLen
    /\ \A s \in DOMAIN rx : Cardinality(Receivable(s)) <= BufLen

\* the buffer is full and a subscriber is further behind than the buffer is
\* long: it can receive the retained messages only
C19_Witness ==
    /\ Retained = BufLen
    /\ \E s \in DOMAIN rx :
          /\ Unread(s) > BufLen
          /\ Cardinality(Receivable(s)) = BufLen

\* the events of s before which at least one published message was left out
Gaps(s) ==
    {i \in DOMAIN got[s] :
        got[s][i] > (IF i = 1 THEN subAt[s] ELSE got[s][i - 1] + 1)}

\* C20 (emitted sequence is a subsequence of what was published): the
\* events of a stream are messages published at or after the position at
\* which it subscribed, each one the payload of the message at its position,
\* at strictly increasing positions (publish order, nothing twice) and all
\* behind its cursor; messages are left out only where the stream got a lag
\* signal.
C20_EmittedIsSubsequence ==
    \A s \in Streams :
        /\ Len(emitted[s]) = Len(got[s])
        /\ \A i \in DOMAIN got[s] :
              /\ subAt[s] <= got[s][i]
              /\ got[s][i] < Len(sent)
              /\ emitted[s][i] = Json(sent[got[s][i] + 1])
              /\ Streaming(s) => got[s][i] < rx[s]
        /\ \A i, j \in DOMAIN got[s] : i < j => got[s][i] < got[s][j]
        /\ Cardinality(Gaps(s)) <= lagged[s]

\* a stream that lagged has emitted two messages, in publish order, and has
\* left out a message published after it subscribed
C20_Witness ==
    \E s \in Streams :
        /\ Streaming(s)
        /\ lagged[s] > 0
        /\ Len(got[s]) >= 2
        /\ Gaps(s) # {}

====
